---- MODULE Spec2Model ----
(***************************************************************************)
(* A model of the hello-app service (src/main.go): the startup sequence of *)
(* main, the per-request steps of the hello handler behind the otelmux     *)
(* middleware, the net/http ResponseWriter the handler writes to, the      *)
(* manual counter numberOfExecutions and the metric controller (pusher)    *)
(* that exports it.                                                        *)
(***************************************************************************)
EXTENDS Integers, Sequences, FiniteSets, TLC

\* Number of requests that may be in flight concurrently (model bound).
MaxRequests == 3

Requests == 1..MaxRequests

\* http.StatusOK, written by buildResponse.
StatusOK == 200

VARIABLES
    endpoint,           \* EXPORTER_ENDPOINT: "reachable" or "unreachable" receiver
    backendUp,          \* whether the telemetry backend currently accepts exports
    pc,                 \* position of main
    done,               \* startup steps main has executed, in execution order
    failedAt,           \* the startup step that failed, or "none"
    exitKind,           \* how the process ended: none/fatal/panic/return/signal
    tracerProvider,     \* global tracer provider: none/installed/shutdown
    propagator,         \* global text-map propagator installed
    pusher,             \* metric controller: none/started/stopped
    deferred,           \* the deferred pusher.Stop has been registered
    tracer,             \* package variable tracer assigned
    meter,              \* package variable meter assigned
    numberOfExecutions, \* package variable numberOfExecutions assigned
    observer,           \* heap memory observer registered
    portBound,          \* :8888 is bound by ListenAndServe
    counter,            \* accumulated value of the manual counter
    exported,           \* counter value last exported by the controller
    hpc,                \* per request: position of the handler
    ctx,                \* per request: index (in spans[r]) of the span in ctx
    spans,              \* per request: the spans started, in start order
    clock,              \* per request: timestamp source for span start/end
    writer,             \* per request: the http.ResponseWriter
    hist                \* per request: the handler states passed through

mainVars == <<pc, done, failedAt, exitKind, tracerProvider, propagator, pusher,
              deferred, tracer, meter, numberOfExecutions, observer, portBound>>
reqVars  == <<hpc, ctx, spans, clock, writer, hist>>
vars     == <<endpoint, backendUp, mainVars, counter, exported, reqVars>>

-----------------------------------------------------------------------------
(* The ResponseWriter of net/http, as used through writer in buildResponse *)

NewWriter ==
    [wroteHeader   |-> FALSE,  \* WriteHeader has been called (logically)
     status        |-> 0,
     handlerHeader |-> {},     \* the map Header() returns: set of <<key, value>>
     snapshotted   |-> FALSE,  \* a clone of handlerHeader was taken for sending
     cwHeader      |-> {},     \* that clone
     sent          |-> FALSE,  \* the header block has gone to the client
     sentHeader    |-> {},     \* the header block the client receives
     body          |-> ""]

HasKey(h, k) == \E kv \in h : kv[1] = k

\* http.DetectContentType: there is no JSON signature, printable text is
\* reported as text/plain.
DetectContentType(data) == "text/plain; charset=utf-8"

\* ResponseWriter.WriteHeader: a second call is superfluous and ignored.
WriteHeader(w, code) ==
    IF w.wroteHeader THEN w
    ELSE [w EXCEPT !.wroteHeader = TRUE, !.status = code]

\* ResponseWriter.Header().Add(k, v): Header() called after WriteHeader first
\* snapshots the logically written header; Add then changes the live map only.
HeaderAdd(w, k, v) ==
    LET w1 == IF w.wroteHeader /\ ~w.snapshotted /\ ~w.sent
              THEN [w EXCEPT !.snapshotted = TRUE, !.cwHeader = w.handlerHeader]
              ELSE w
    IN  [w1 EXCEPT !.handlerHeader = @ \cup {<<k, v>>}]

\* ResponseWriter.Write: implies WriteHeader(200); the header block sent is the
\* snapshot if one was taken, else the live map, plus a sniffed Content-Type
\* when none is set.
Write(w, data) ==
    LET w1 == WriteHeader(w, StatusOK)
        h  == IF w1.snapshotted THEN w1.cwHeader ELSE w1.handlerHeader
        hs == IF HasKey(h, "Content-Type") THEN h
              ELSE h \cup {<<"Content-Type", DetectContentType(data)>>}
        w2 == IF w1.sent THEN w1
              ELSE [w1 EXCEPT !.sent = TRUE, !.sentHeader = hs]
    IN  [w2 EXCEPT !.body = @ \o data]

\* json.Marshal of Response{Message: msg}.
Marshal(msg) == "{\"Message\":\"" \o msg \o "\"}"

\* buildResponse(writer): WriteHeader, then Header().Add, then Write.
buildResponse(w) ==
    Write(HeaderAdd(WriteHeader(w, StatusOK), "Content-Type", "application/json"),
          Marshal("Hello World"))

-----------------------------------------------------------------------------
(* Spans                                                                   *)

\* tracer.Start(ctx, name): a new span whose parent is the span in ctx.
TracerStart(ss, c, name, t) ==
    Append(ss, [name |-> name, parent |-> c, start |-> t, end |-> 0, ends |-> 0])

\* span.End(): records the end time the first time it is called.
SpanEnd(ss, i, t) ==
    [ss EXCEPT ![i] = [@ EXCEPT !.end  = IF @ = 0 /\ ss[i].ends = 0 THEN t ELSE @,
                                !.ends = @ + 1]]

\* Faulty variant of CounterAdd: the delta is stored, not accumulated.
CounterAdd_Store(c, delta) == delta

\* BoundInt64Counter.Add(ctx, delta): atomic accumulation.
CounterAdd(c, delta) == c + delta

-----------------------------------------------------------------------------
(* Initial state: the process has been launched, main has not yet run.     *)

Init ==
    /\ endpoint \in {"reachable", "unreachable"}
    /\ backendUp = (endpoint = "reachable")
    /\ pc = "resource"
    /\ done = <<>>
    /\ failedAt = "none"
    /\ exitKind = "none"
    /\ tracerProvider = "none"
    /\ propagator = FALSE
    /\ pusher = "none"
    /\ deferred = FALSE
    /\ tracer = FALSE
    /\ meter = FALSE
    /\ numberOfExecutions = FALSE
    /\ observer = FALSE
    /\ portBound = FALSE
    /\ counter = 0
    /\ exported = 0
    /\ hpc = [r \in Requests |-> "idle"]
    /\ ctx = [r \in Requests |-> 0]
    /\ spans = [r \in Requests |-> <<>>]
    /\ clock = [r \in Requests |-> 0]
    /\ writer = [r \in Requests |-> NewWriter]
    /\ hist = [r \in Requests |-> <<>>]

-----------------------------------------------------------------------------
(* main                                                                    *)

\* A startup step completed: record it and move on.
Step(name, next) ==
    /\ pc = name
    /\ pc' = next
    /\ done' = Append(done, name)

\* log.Fatalf: logs and calls os.Exit(1); deferred functions do not run.
Fatalf(name) ==
    /\ pc = name
    /\ pc' = "exited"
    /\ failedAt' = name
    /\ exitKind' = "fatal"
    /\ UNCHANGED <<done, tracerProvider, propagator, pusher, deferred, tracer,
                   meter, numberOfExecutions, observer, portBound>>
    /\ UNCHANGED <<endpoint, backendUp, counter, exported, reqVars>>

\* The state of the controller and of the exported value after the deferred
\* function of main has run: pusher.Stop collects and exports one last time;
\* its error (a failing backend) is discarded.
StopPusher ==
    IF deferred
    THEN /\ pusher' = "stopped"
         /\ exported' = IF backendUp THEN counter ELSE exported
    ELSE UNCHANGED <<pusher, exported>>

\* resource.New succeeds.
ResourceOk ==
    /\ Step("resource", "traceExporter")
    /\ UNCHANGED <<failedAt, exitKind, tracerProvider, propagator, pusher,
                   deferred, tracer, meter, numberOfExecutions, observer,
                   portBound>>
    /\ UNCHANGED <<endpoint, backendUp, counter, exported, reqVars>>

\* resource.New returns an error.
ResourceFail == Fatalf("resource")

\* otlptracegrpc.New returns: the dial is made with grpc.WithBlock() under
\* context.Background(), so it returns only once the receiver is connected.
\* With an unreachable receiver no step of main is enabled here.
TraceExporterOk ==
    /\ endpoint = "reachable"
    /\ Step("traceExporter", "tracerProvider")
    /\ UNCHANGED <<failedAt, exitKind, tracerProvider, propagator, pusher,
                   deferred, tracer, meter, numberOfExecutions, observer,
                   portBound>>
    /\ UNCHANGED <<endpoint, backendUp, counter, exported, reqVars>>

\* otlptracegrpc.New returns an error (one that is not a connection failure).
TraceExporterFail ==
    /\ endpoint = "reachable"
    /\ Fatalf("traceExporter")

\* otel.SetTracerProvider(sdktrace.NewTracerProvider(...)).
SetTracerProvider ==
    /\ Step("tracerProvider", "propagator")
    /\ tracerProvider' = "installed"
    /\ UNCHANGED <<failedAt, exitKind, propagator, pusher, deferred, tracer,
                   meter, numberOfExecutions, observer, portBound>>
    /\ UNCHANGED <<endpoint, backendUp, counter, exported, reqVars>>

\* otel.SetTextMapPropagator(...).
SetTextMapPropagator ==
    /\ Step("propagator", "metricExporter")
    /\ propagator' = TRUE
    /\ UNCHANGED <<failedAt, exitKind, tracerProvider, pusher, deferred, tracer,
                   meter, numberOfExecutions, observer, portBound>>
    /\ UNCHANGED <<endpoint, backendUp, counter, exported, reqVars>>

\* otlpmetricgrpc.New succeeds.
MetricExporterOk ==
    /\ endpoint = "reachable"
    /\ Step("metricExporter", "pusherStart")
    /\ UNCHANGED <<failedAt, exitKind, tracerProvider, propagator, pusher,
                   deferred, tracer, meter, numberOfExecutions, observer,
                   portBound>>
    /\ UNCHANGED <<endpoint, backendUp, counter, exported, reqVars>>

\* otlpmetricgrpc.New returns an error.
MetricExporterFail == Fatalf("metricExporter")

\* controller.New, pusher.Start succeeds, the deferred Stop is registered.
PusherStartOk ==
    /\ Step("pusherStart", "meterProvider")
    /\ pusher' = "started"
    /\ deferred' = TRUE
    /\ UNCHANGED <<failedAt, exitKind, tracerProvider, propagator, tracer,
                   meter, numberOfExecutions, observer, portBound>>
    /\ UNCHANGED <<endpoint, backendUp, counter, exported, reqVars>>

\* pusher.Start returns an error.
PusherStartFail == Fatalf("pusherStart")

\* global.SetMeterProvider(pusher.MeterProvider()).
SetMeterProvider ==
    /\ Step("meterProvider", "tracer")
    /\ UNCHANGED <<failedAt, exitKind, tracerProvider, propagator, pusher,
                   deferred, tracer, meter, numberOfExecutions, observer,
                   portBound>>
    /\ UNCHANGED <<endpoint, backendUp, counter, exported, reqVars>>

\* tracer = otel.Tracer(...).
AssignTracer ==
    /\ Step("tracer", "meter")
    /\ tracer' = TRUE
    /\ UNCHANGED <<failedAt, exitKind, tracerProvider, propagator, pusher,
                   deferred, meter, numberOfExecutions, observer, portBound>>
    /\ UNCHANGED <<endpoint, backendUp, counter, exported, reqVars>>

\* meter = global.Meter(...).
AssignMeter ==
    /\ Step("meter", "counter")
    /\ meter' = TRUE
    /\ UNCHANGED <<failedAt, exitKind, tracerProvider, propagator, pusher,
                   deferred, tracer, numberOfExecutions, observer, portBound>>
    /\ UNCHANGED <<endpoint, backendUp, counter, exported, reqVars>>

\* numberOfExecutions = metric.Must(meter).NewInt64Counter(...).Bind(...).
RegisterCounter ==
    /\ Step("counter", "observer")
    /\ numberOfExecutions' = TRUE
    /\ UNCHANGED <<failedAt, exitKind, tracerProvider, propagator, pusher,
                   deferred, tracer, meter, observer, portBound>>
    /\ UNCHANGED <<endpoint, backendUp, counter, exported, reqVars>>

\* metric.Must(meter).NewInt64CounterObserver(...).
RegisterObserver ==
    /\ Step("observer", "listen")
    /\ observer' = TRUE
    /\ UNCHANGED <<failedAt, exitKind, tracerProvider, propagator, pusher,
                   deferred, tracer, meter, numberOfExecutions, portBound>>
    /\ UNCHANGED <<endpoint, backendUp, counter, exported, reqVars>>

\* metric.Must panics when the instrument cannot be created: the panic unwinds
\* main, the deferred Stop runs, the process crashes.
RegisterPanic ==
    /\ pc \in {"counter", "observer"}
    /\ pc' = "exited"
    /\ failedAt' = pc
    /\ exitKind' = "panic"
    /\ StopPusher
    /\ UNCHANGED <<done, tracerProvider, propagator, deferred, tracer, meter,
                   numberOfExecutions, observer, portBound>>
    /\ UNCHANGED <<endpoint, backendUp, counter, reqVars>>

\* Faulty variant of ListenAndServe: the server is started right after the
\* meter provider is installed, before the instruments are registered.
ListenAndServe_Early ==
    /\ pc = "tracer"
    /\ pc' = "serving"
    /\ done' = Append(done, "listen")
    /\ portBound' = TRUE
    /\ UNCHANGED <<failedAt, exitKind, tracerProvider, propagator, pusher,
                   deferred, tracer, meter, numberOfExecutions, observer>>
    /\ UNCHANGED <<endpoint, backendUp, counter, exported, reqVars>>

\* Router set up with the otelmux middleware and the /hello route;
\* http.ListenAndServe binds :8888 and serves (blocking).
ListenAndServe ==
    /\ Step("listen", "serving")
    /\ portBound' = TRUE
    /\ UNCHANGED <<failedAt, exitKind, tracerProvider, propagator, pusher,
                   deferred, tracer, meter, numberOfExecutions, observer>>
    /\ UNCHANGED <<endpoint, backendUp, counter, exported, reqVars>>

\* http.ListenAndServe returns an error (the bind fails, or the listener fails
\* while serving); the error is discarded, main returns, the deferred Stop
\* runs, the process ends with the handlers still in flight abandoned.
ListenAndServeReturns ==
    /\ pc \in {"listen", "serving"}
    /\ pc' = "exited"
    /\ exitKind' = "return"
    /\ failedAt' = IF pc = "listen" THEN "listen" ELSE failedAt
    /\ portBound' = FALSE
    /\ StopPusher
    /\ UNCHANGED <<done, tracerProvider, propagator, deferred, tracer, meter,
                   numberOfExecutions, observer>>
    /\ UNCHANGED <<endpoint, backendUp, counter, reqVars>>

\* The process is shut down from outside (SIGINT/SIGTERM): main installs no
\* signal handler, so the runtime ends the process at once and no deferred
\* function runs.
Signal ==
    /\ pc # "exited"
    /\ pc' = "exited"
    /\ exitKind' = "signal"
    /\ portBound' = FALSE
    /\ UNCHANGED <<done, failedAt, tracerProvider, propagator, pusher, deferred,
                   tracer, meter, numberOfExecutions, observer>>
    /\ UNCHANGED <<endpoint, backendUp, counter, exported, reqVars>>

MainStep ==
    \/ ResourceOk \/ ResourceFail
    \/ TraceExporterOk \/ TraceExporterFail
    \/ SetTracerProvider
    \/ SetTextMapPropagator
    \/ MetricExporterOk \/ MetricExporterFail
    \/ PusherStartOk \/ PusherStartFail
    \/ SetMeterProvider
    \/ AssignTracer \/ AssignMeter
    \/ RegisterCounter \/ RegisterObserver \/ RegisterPanic
    \/ ListenAndServe \/ ListenAndServeReturns

-----------------------------------------------------------------------------
(* A request to /hello: the otelmux middleware, then hello                 *)

Now(r) == clock[r] + 1

\* The server accepts a request and runs it on its own goroutine: the
\* middleware starts the route's root span, puts it in the request context and
\* calls hello, which reads ctx := request.Context().
Dispatch(r) ==
    /\ pc = "serving"
    /\ hpc[r] = "idle"
    /\ spans' = [spans EXCEPT ![r] = TracerStart(@, 0, "/hello", Now(r))]
    /\ ctx' = [ctx EXCEPT ![r] = 1]
    /\ clock' = [clock EXCEPT ![r] = Now(r)]
    /\ hist' = [hist EXCEPT ![r] = Append(@, "Received")]
    /\ hpc' = [hpc EXCEPT ![r] = "Received"]
    /\ UNCHANGED <<endpoint, backendUp, mainVars, counter, exported, writer>>

\* Faulty variant of HelloStartBuildResp: the context returned by tracer.Start
\* is dropped (_, buildResp := ...), so ctx still holds the root span.
HelloStartBuildResp_DropCtx(r) ==
    /\ pc = "serving"
    /\ hpc[r] = "Received"
    /\ spans' = [spans EXCEPT ![r] = TracerStart(@, ctx[r], "buildResponse", Now(r))]
    /\ clock' = [clock EXCEPT ![r] = Now(r)]
    /\ hist' = [hist EXCEPT ![r] = Append(@, "SpanStarted(buildResponse)")]
    /\ hpc' = [hpc EXCEPT ![r] = "SpanStarted(buildResponse)"]
    /\ UNCHANGED <<endpoint, backendUp, mainVars, counter, exported, writer, ctx>>

\* ctx, buildResp := tracer.Start(ctx, "buildResponse")
HelloStartBuildResp(r) ==
    /\ pc = "serving"
    /\ hpc[r] = "Received"
    /\ spans' = [spans EXCEPT ![r] = TracerStart(@, ctx[r], "buildResponse", Now(r))]
    /\ ctx' = [ctx EXCEPT ![r] = Len(spans[r]) + 1]
    /\ clock' = [clock EXCEPT ![r] = Now(r)]
    /\ hist' = [hist EXCEPT ![r] = Append(@, "SpanStarted(buildResponse)")]
    /\ hpc' = [hpc EXCEPT ![r] = "SpanStarted(buildResponse)"]
    /\ UNCHANGED <<endpoint, backendUp, mainVars, counter, exported, writer>>

\* response := buildResponse(writer); buildResp.End()
HelloBuildResponse(r) ==
    /\ pc = "serving"
    /\ hpc[r] = "SpanStarted(buildResponse)"
    /\ writer' = [writer EXCEPT ![r] = buildResponse(@)]
    /\ spans' = [spans EXCEPT ![r] = SpanEnd(@, 2, Now(r))]
    /\ clock' = [clock EXCEPT ![r] = Now(r)]
    /\ hist' = [hist EXCEPT ![r] = Append(@, "SpanEnded")]
    /\ hpc' = [hpc EXCEPT ![r] = "SpanEnded(buildResponse)"]
    /\ UNCHANGED <<endpoint, backendUp, mainVars, counter, exported, ctx>>

\* Faulty variant of HelloStartMySpan: mySpan is started from
\* context.Background(), outside the request's trace.
HelloStartMySpan_Background(r) ==
    /\ pc = "serving"
    /\ hpc[r] = "SpanEnded(buildResponse)"
    /\ spans' = [spans EXCEPT ![r] = TracerStart(@, 0, "mySpan", Now(r))]
    /\ clock' = [clock EXCEPT ![r] = Now(r)]
    /\ hist' = [hist EXCEPT ![r] = Append(@, "SpanStarted(mySpan)")]
    /\ hpc' = [hpc EXCEPT ![r] = "SpanStarted(mySpan)"]
    /\ UNCHANGED <<endpoint, backendUp, mainVars, counter, exported, ctx, writer>>

\* _, mySpan := tracer.Start(ctx, "mySpan")
HelloStartMySpan(r) ==
    /\ pc = "serving"
    /\ hpc[r] = "SpanEnded(buildResponse)"
    /\ spans' = [spans EXCEPT ![r] = TracerStart(@, ctx[r], "mySpan", Now(r))]
    /\ clock' = [clock EXCEPT ![r] = Now(r)]
    /\ hist' = [hist EXCEPT ![r] = Append(@, "SpanStarted(mySpan)")]
    /\ hpc' = [hpc EXCEPT ![r] = "SpanStarted(mySpan)"]
    /\ UNCHANGED <<endpoint, backendUp, mainVars, counter, exported, ctx, writer>>

\* Faulty variant of HelloEndMySpan: mySpan.End() is forgotten.
HelloEndMySpan_NoEnd(r) ==
    /\ pc = "serving"
    /\ hpc[r] = "SpanStarted(mySpan)"
    /\ hpc' = [hpc EXCEPT ![r] = "SpanEnded(mySpan)"]
    /\ UNCHANGED <<endpoint, backendUp, mainVars, counter, exported, ctx, writer,
                   spans, clock, hist>>

\* if response.isValid() { log.Print(...) }; mySpan.End()
HelloEndMySpan(r) ==
    /\ pc = "serving"
    /\ hpc[r] = "SpanStarted(mySpan)"
    /\ spans' = [spans EXCEPT ![r] = SpanEnd(@, 3, Now(r))]
    /\ clock' = [clock EXCEPT ![r] = Now(r)]
    /\ hist' = [hist EXCEPT ![r] = Append(@, "SpanEnded")]
    /\ hpc' = [hpc EXCEPT ![r] = "SpanEnded(mySpan)"]
    /\ UNCHANGED <<endpoint, backendUp, mainVars, counter, exported, ctx, writer>>

\* numberOfExecutions.Add(ctx, 1)
HelloAdd(r) ==
    /\ pc = "serving"
    /\ hpc[r] = "SpanEnded(mySpan)"
    /\ counter' = CounterAdd(counter, 1)
    /\ hist' = [hist EXCEPT ![r] = Append(@, "MetricIncremented")]
    /\ hpc' = [hpc EXCEPT ![r] = "MetricIncremented"]
    /\ UNCHANGED <<endpoint, backendUp, mainVars, exported, ctx, spans, clock,
                   writer>>

\* hello returns.
HelloReturn(r) ==
    /\ pc = "serving"
    /\ hpc[r] = "MetricIncremented"
    /\ hist' = [hist EXCEPT ![r] = Append(@, "Complete")]
    /\ hpc' = [hpc EXCEPT ![r] = "Complete"]
    /\ UNCHANGED <<endpoint, backendUp, mainVars, counter, exported, ctx, spans,
                   clock, writer>>

\* Back in the middleware: the route's root span is ended and the response is
\* handed to the client.
MiddlewareEnd(r) ==
    /\ pc = "serving"
    /\ hpc[r] = "Complete"
    /\ spans' = [spans EXCEPT ![r] = SpanEnd(@, 1, Now(r))]
    /\ clock' = [clock EXCEPT ![r] = Now(r)]
    /\ hpc' = [hpc EXCEPT ![r] = "Responded"]
    /\ UNCHANGED <<endpoint, backendUp, mainVars, counter, exported, ctx, writer,
                   hist>>

-----------------------------------------------------------------------------
(* The metric controller's ticker and the telemetry backend                *)

\* Every collect period the controller collects the instruments and exports
\* them; a failed export is dropped.
Collect ==
    /\ pc # "exited"
    /\ pusher = "started"
    /\ backendUp
    /\ exported # counter
    /\ exported' = counter
    /\ UNCHANGED <<endpoint, backendUp, mainVars, counter, reqVars>>

\* The backend behind a reachable receiver starts or stops accepting exports.
BackendFlip ==
    /\ pc # "exited"
    /\ endpoint = "reachable"
    /\ backendUp' = ~backendUp
    /\ UNCHANGED <<endpoint, mainVars, counter, exported, reqVars>>

-----------------------------------------------------------------------------

Next ==
    \/ MainStep
    \/ Signal
    \/ Collect
    \/ BackendFlip
    \/ \E r \in Requests :
         \/ Dispatch(r)
         \/ HelloStartBuildResp(r)
         \/ HelloBuildResponse(r)
         \/ HelloStartMySpan(r)
         \/ HelloEndMySpan(r)
         \/ HelloAdd(r)
         \/ HelloReturn(r)
         \/ MiddlewareEnd(r)

Spec == Init /\ [][Next]_vars

\* The Go scheduler runs main whenever it is runnable; nothing is assumed of
\* the environment (signals, backend, incoming requests).
FairSpec == Spec /\ WF_vars(MainStep)

-----------------------------------------------------------------------------
(* Properties                                                              *)

Returned(r) == hpc[r] \in {"Complete", "Responded"}

IsPrefix(s, t) == Len(s) <= Len(t) /\ \A i \in 1..Len(s) : s[i] = t[i]

InDone(name) == \E i \in 1..Len(done) : done[i] = name

RECURSIVE Under(_, _, _)
\* Span i of ss has span a among its ancestors.
Under(ss, i, a) ==
    IF i = 0 THEN FALSE
    ELSE ss[i].parent = a \/ Under(ss, ss[i].parent, a)

\* Two ended spans do not overlap, or one lies properly inside the other.
DisjointOrNested(a, b) ==
    \/ a.end < b.start
    \/ b.end < a.start
    \/ a.start < b.start /\ b.end < a.end
    \/ b.start < a.start /\ a.end < b.end

\* C1: once every handler that was started has returned, the accumulated value
\* of numberOfExecutions equals the number of handlers run; at any time it
\* equals the number of handlers that have executed their Add (none is lost).
C1_NoLostIncrement ==
    LET started == {r \in Requests : hpc[r] # "idle"}
        added   == {r \in Requests :
                       hpc[r] \in {"MetricIncremented", "Complete", "Responded"}}
    IN  /\ counter = Cardinality(added)
        /\ (\A r \in started : Returned(r)) => counter = Cardinality(started)

C1_Witness ==
    /\ MaxRequests >= 2
    /\ \A r \in Requests : Returned(r)
    /\ counter = MaxRequests

\* C2: every completed request carries status 200, the header
\* Content-Type: application/json and the body {"Message":"Hello World"}.
C2_ResponseContract ==
    \A r \in Requests :
        Returned(r) =>
            /\ writer[r].status = 200
            /\ <<"Content-Type", "application/json">> \in writer[r].sentHeader
            /\ writer[r].body = "{\"Message\":\"Hello World\"}"

\* C3: hello produces exactly two spans, buildResponse and mySpan, both below
\* the route's root span, each ended after it started, the two not overlapping
\* or properly nested.
C3_TwoChildSpans ==
    \A r \in Requests :
        /\ Len(spans[r]) <= 3
        /\ Returned(r) =>
            /\ Len(spans[r]) = 3
            /\ spans[r][1].name = "/hello" /\ spans[r][1].parent = 0
            /\ spans[r][2].name = "buildResponse"
            /\ spans[r][3].name = "mySpan"
            /\ \A i \in {2, 3} :
                 /\ Under(spans[r], i, 1)
                 /\ spans[r][i].ends = 1
                 /\ spans[r][i].start < spans[r][i].end
                 /\ spans[r][1].start < spans[r][i].start
            /\ DisjointOrNested(spans[r][2], spans[r][3])

C3_Witness ==
    \E r \in Requests : Returned(r) /\ Len(spans[r]) = 3 /\ spans[r][3].ends = 1

\* C4: with an unreachable EXPORTER_ENDPOINT the process eventually exits,
\* with a fatal error unless it was ended from outside, and the HTTP port is
\* never bound.
C4_FailFast ==
    /\ [](endpoint = "unreachable" => ~portBound)
    /\ [](endpoint = "unreachable" /\ pc = "exited" /\ exitKind # "signal"
            => exitKind = "fatal")
    /\ (endpoint = "unreachable") ~> (pc = "exited")

\* C5: when the process is shut down from outside after requests were served,
\* the controller has been stopped and every recorded increment exported.
C5_FlushOnShutdown ==
    (pc = "exited" /\ exitKind = "signal" /\ counter > 0)
        => (pusher = "stopped" /\ exported = counter)

HelloStates ==
    <<"Received", "SpanStarted(buildResponse)", "SpanEnded",
      "SpanStarted(mySpan)", "SpanEnded", "MetricIncremented", "Complete">>

C6_Order ==
    \A r \in Requests :
        /\ IsPrefix(hist[r], HelloStates)
        /\ Returned(r) => hist[r] = HelloStates
        /\ \A i \in 2..Len(spans[r]) : spans[r][i].ends <= 1
        /\ \A i \in 1..Len(hist[r]) :
             \* a span seen as ended has been ended; the metric is incremented
             \* only with both spans ended
             /\ (i = 3 => spans[r][2].ends = 1)
             /\ (i = 5 => spans[r][3].ends = 1)
             /\ (i = 6 => spans[r][2].ends = 1 /\ spans[r][3].ends = 1)

C6_Step ==
    /\ counter' # counter =>
         /\ counter' = counter + 1
         /\ \E r \in Requests :
              /\ hist'[r] = Append(hist[r], "MetricIncremented")
              /\ Len(spans[r]) = 3
              /\ spans[r][2].ends = 1 /\ spans[r][3].ends = 1
    /\ \A r \in Requests :
         Returned(r) =>
             /\ writer'[r] = writer[r]
             /\ hist'[r] = hist[r]
             /\ Tail(spans'[r]) = Tail(spans[r])

\* C6: every execution of hello passes through Received,
\* SpanStarted(buildResponse), SpanEnded, SpanStarted(mySpan), SpanEnded,
\* MetricIncremented, Complete in that order, nothing skipped or repeated; each
\* of its spans is ended exactly once, the counter is incremented only after
\* both have ended, and after Complete neither the handler's spans nor the
\* response change.
C6_HandlerStateMachine == [](C6_Order) /\ [][C6_Step]_vars

C6_Witness ==
    \E r \in Requests : hpc[r] = "Responded" /\ hist[r] = HelloStates

StartupOrder ==
    <<"resource", "traceExporter", "tracerProvider", "propagator",
      "metricExporter", "pusherStart", "meterProvider", "tracer", "meter",
      "counter", "observer", "listen">>

\* C7: main executes its startup steps in the fixed order; no request reaches
\* hello before tracer and numberOfExecutions are assigned; a step that fails
\* ends the process with no later step executed.
C7_StartupOrder ==
    /\ IsPrefix(done, StartupOrder)
    /\ (tracerProvider # "none") = InDone("tracerProvider")
    /\ propagator = InDone("propagator")
    /\ (pusher # "none") = InDone("pusherStart")
    /\ tracer = InDone("tracer")
    /\ meter = InDone("meter")
    /\ numberOfExecutions = InDone("counter")
    /\ observer = InDone("observer")
    /\ portBound => done = StartupOrder
    /\ \A r \in Requests : hpc[r] # "idle" => tracer /\ numberOfExecutions
    /\ failedAt # "none" =>
         /\ pc = "exited"
         /\ Len(done) < Len(StartupOrder)
         /\ StartupOrder[Len(done) + 1] = failedAt

C7_Witness ==
    /\ pc = "exited"
    /\ failedAt = "pusherStart"
    /\ tracerProvider = "installed"
    /\ ~tracer

\* C8: there is no exit of the process after pusher.Start succeeded in which
\* pusher.Stop has not run.
C8_StopOnEveryExit ==
    (pc = "exited" /\ InDone("pusherStart")) => pusher = "stopped"

\* C9: when startup fails after the trace pipeline was set up, the trace
\* pipeline is shut down before the process ends.
C9_TraceCleanup ==
    (pc = "exited" /\ failedAt \in {"metricExporter", "pusherStart"})
        => tracerProvider = "shutdown"

\* C10: the parent of mySpan is the request's buildResponse span, not the
\* route's root span, and that parent has ended when mySpan starts.
C10_MySpanParent ==
    \A r \in Requests :
        Len(spans[r]) >= 3 =>
            LET my == spans[r][3]
                p  == my.parent
            IN  /\ my.name = "mySpan"
                /\ p = 2
                /\ spans[r][p].name = "buildResponse"
                /\ spans[r][p].parent = 1
                /\ spans[r][p].ends = 1
                /\ spans[r][p].end < my.start

C10_Witness ==
    \E r \in Requests : hpc[r] = "SpanStarted(mySpan)" /\ Len(spans[r]) = 3

====
